---------------------------- MODULE Spec2Model ----------------------------
(***************************************************************************)
(* State-machine model of the simulation core of src/life_simulator.py     *)
(* (the "Maple Hunt" action RPG): Player.gain_exp and the MapleHuntGame     *)
(* operations handle_movement, jump_player, update_monsters,                *)
(* attack_monsters, collect_drops, equip_selected and discard_selected.     *)
(*                                                                         *)
(* Lengths and velocities are Python floats in the source.  The model      *)
(* keeps them as integers in TENTHS of a unit (x = 400 is 4000, gravity    *)
(* 0.6 is 6), which is exact for x and for every comparison of the         *)
(* source but two: the monsters' normalised step, where the square root    *)
(* is rounded down to a tenth, and the sum of forty times 0.6 in vy, whose *)
(* binary rounding makes the source land a jump one tick later than the    *)
(* exact sum does (y = 387.99... at the tick where the model has 388).     *)
(* Python objects have an identity; Monster and Equipment records carry    *)
(* an id field for it, which the dataclass equality of the source (used    *)
(* by list.remove) does not look at.                                       *)
(***************************************************************************)
EXTENDS Integers, Sequences, FiniteSets, TLC

VARIABLES
    player,      \* GameState.player: a Player record
    monsters,    \* GameState.monsters: sequence of Monster records
    drops,       \* GameState.drops: sequence of Drop records
    inventory,   \* GameState.inventory: sequence of Equipment records
    combo_timer, \* GameState.combo_timer
    nextMonster, \* identity of the next Monster object to be created
    nextItem,    \* identity of the next Equipment object to be created
    lastOp,      \* the operation that returned last ("init" after __init__)
    log,         \* the lines append_log received during the last operation
    hits,        \* the local `damage` of attack_monsters or update_monsters, per monster, in the last operation
    ticks,       \* the number of times loop() has run, as far as it is counted
    inputs,      \* the number of events handled, equip_selected aside
    lastGain     \* the argument and the result of the last operation, if it was gain_exp

vars == <<player, monsters, drops, inventory, combo_timer,
          nextMonster, nextItem, lastOp, log, hits, ticks, inputs, lastGain>>

---------------------------------------------------------------------------
(* Bounds of the exploration.                                              *)

\* loop() runs at most MaxTicks times (in LandSpec: is counted that far)
MaxTicks == 8
\* at most MaxInputs events are handled (jump, attack, discard, and gain_exp
\* called on its own); equipping is not counted
MaxInputs == 3

---------------------------------------------------------------------------
(* Arithmetic helpers.                                                     *)

\* a length of the source, in tenths
T(n) == 10 * n

Max(a, b) == IF a >= b THEN a ELSE b
Min(a, b) == IF a <= b THEN a ELSE b

\* Python's float division followed by the model's rounding toward zero
TruncDiv(a, b) == IF a >= 0 THEN a \div b ELSE -((-a) \div b)

\* floor of the square root, by bisection on [lo, hi)
RECURSIVE IsqrtBetween(_, _, _)
IsqrtBetween(n, lo, hi) ==
    IF hi - lo <= 1 THEN lo
    ELSE LET mid == (lo + hi) \div 2
         IN  IF mid * mid <= n THEN IsqrtBetween(n, mid, hi)
                               ELSE IsqrtBetween(n, lo, mid)

Isqrt(n) == IsqrtBetween(n, 0, 16384)

\* ((ax - bx) ** 2 + (ay - by) ** 2) ** 0.5, in tenths, rounded down
Distance(ax, ay, bx, by) ==
    Isqrt((ax - bx) * (ax - bx) + (ay - by) * (ay - by))

\* the sum of a sequence of numbers
RECURSIVE SumSeq(_)
SumSeq(s) == IF s = <<>> THEN 0 ELSE Head(s) + SumSeq(Tail(s))

---------------------------------------------------------------------------
(* Program constants (lengths in source units unless a comment says so).   *)

ground_y == 440               \* self.ground_y
player_ground_offset == 52    \* self.player_ground_offset
gravity == 6                  \* self.gravity = 0.6, in tenths
player_speed == T(4)          \* Player.speed = 4.0
jump_strength == T(12)        \* Player.jump_strength = 12.0
start_x == T(400)             \* Player.x, and the respawn position
ground_limit == T(ground_y - player_ground_offset)
min_x == T(20)
max_x == T(700)
ceiling_y == T(40)
contact_radius == T(26)       \* update_monsters: dist < 26
melee_radius == T(60)         \* attack_monsters: dist < 60
pickup_radius == T(25)        \* collect_drops: dist < 25
monster_floor == 6            \* update_monsters: while len(monsters) < 6
initial_monsters == 4         \* spawn_initial_monsters: range(4)
death_penalty == 20           \* update_monsters: gold - 20
gem_heal == 6                 \* collect_drops: hp + 6

---------------------------------------------------------------------------
(* Equipment and Player.                                                   *)

\* Python's None in Player.weapon, Player.armor and Drop.equipment
None == [id |-> 0, name |-> <<>>, attack |-> 0, defense |-> 0]

\* @dataclass Player, as constructed by GameState() and positioned by
\* MapleHuntGame.__init__ (speed and jump_strength never change: see above)
InitialPlayer ==
    [x |-> start_x, y |-> ground_limit, vy |-> 0, on_ground |-> TRUE,
     max_hp |-> 120, hp |-> 120, level |-> 1, exp |-> 0, exp_to_next |-> 30,
     gold |-> 0, base_attack |-> 8, base_defense |-> 2,
     weapon |-> None, armor |-> None]

\* Player.attack_power
attack_power(p) ==
    p.base_attack
    + (IF p.weapon # None THEN p.weapon.attack ELSE 0)
    + (IF p.armor # None THEN p.armor.attack ELSE 0)

\* Player.defense_power
defense_power(p) ==
    p.base_defense
    + (IF p.weapon # None THEN p.weapon.defense ELSE 0)
    + (IF p.armor # None THEN p.armor.defense ELSE 0)

\* line 59 with round() in the place of int()
NextThresholdRounded(t) == (135 * t + 550) \div 100

\* int(exp_to_next * 1.35 + 5): the float product truncated
NextThreshold(t) == (135 * t + 500) \div 100

\* the body of the while loop of Player.gain_exp without line 63
LevelUpNoDefense(p) ==
    [p EXCEPT !.exp = p.exp - p.exp_to_next,
              !.level = p.level + 1,
              !.exp_to_next = NextThreshold(p.exp_to_next),
              !.max_hp = p.max_hp + 15,
              !.hp = Min(p.max_hp + 15, p.hp + 20),
              !.base_attack = p.base_attack + 2]

\* the body of the while loop of Player.gain_exp without line 57,
\* `self.exp -= self.exp_to_next`
LevelUpKeepingExp(p) ==
    [p EXCEPT !.level = p.level + 1,
              !.exp_to_next = NextThreshold(p.exp_to_next),
              !.max_hp = p.max_hp + 15,
              !.hp = Min(p.max_hp + 15, p.hp + 20),
              !.base_attack = p.base_attack + 2,
              !.base_defense = p.base_defense + 1]

\* the body of the while loop of Player.gain_exp
LevelUp(p) ==
    [p EXCEPT !.exp = p.exp - p.exp_to_next,
              !.level = p.level + 1,
              !.exp_to_next = NextThreshold(p.exp_to_next),
              !.max_hp = p.max_hp + 15,
              !.hp = Min(p.max_hp + 15, p.hp + 20),
              !.base_attack = p.base_attack + 2,
              !.base_defense = p.base_defense + 1]

\* the loop of Player.gain_exp with `if` in the place of `while`
LevelOnce(r) ==
    IF r.player.exp >= r.player.exp_to_next
    THEN [player |-> LevelUp(r.player), leveled |-> TRUE]
    ELSE r

\* the while loop of Player.gain_exp, on the pair (self, leveled)
RECURSIVE LevelLoop(_)
LevelLoop(r) ==
    IF r.player.exp >= r.player.exp_to_next
    THEN LevelLoop([player |-> LevelUp(r.player), leveled |-> TRUE])
    ELSE r

\* Player.gain_exp: the player after the call, and the value returned
gain_exp(p, amount) ==
    LevelLoop([player |-> [p EXCEPT !.exp = p.exp + amount], leveled |-> FALSE])

---------------------------------------------------------------------------
(* Random draws.  Every call of the random module is an input of the       *)
(* operation that makes it.  An operation draws several times (once per    *)
(* monster created, hit or killed), so its input is the sequence of the    *)
(* values drawn, taken from a small set of such sequences; every value is  *)
(* one the call can return.                                                *)

\* one create_monster: randint(1, 3 + level // 2), uniform(1.2, 2.0) in
\* tenths, uniform(80, 640) in tenths
NearWeak == [level |-> 1, speed |-> 20, x |-> T(400)]
NearStrong == [level |-> 3, speed |-> 20, x |-> T(400)]
FarStrong == [level |-> 3, speed |-> 12, x |-> T(460)]

\* the draws of up to six successive create_monster calls
StrongTape == <<NearStrong, NearWeak, NearStrong, NearStrong, NearStrong, NearStrong>>
MixedTape == <<NearWeak, FarStrong, NearWeak, NearStrong, FarStrong, NearWeak>>
MonsterTapes == { StrongTape, MixedTape }

\* attack_monsters: random.randint(0, 4) for the monster at each list position
BonusTapes == { <<4, 4, 0, 4, 4, 0>> }

\* random_equipment: random() < 0.5, choice(prefixes), choice(weapons or
\* armors), randint(3, 7) and randint(0, 2)
WeaponRoll == [weapon |-> TRUE,  prefix |-> 1, suffix |-> 1, major |-> 7, minor |-> 0]
ArmorRoll == [weapon |-> FALSE, prefix |-> 2, suffix |-> 2, major |-> 3, minor |-> 2]

\* one spawn_drops: the four random() tests, uniform(-12, 12) twice (in
\* tenths), and the draws of random_equipment
NoDrop ==
    [exp |-> FALSE, gold |-> FALSE, gem |-> FALSE, gear |-> FALSE,
     dx |-> 0, dy |-> 0, item |-> WeaponRoll]
Loot ==
    [exp |-> TRUE, gold |-> TRUE, gem |-> TRUE, gear |-> FALSE,
     dx |-> T(-12), dy |-> T(-12), item |-> WeaponRoll]
LootAndGear(g) == [Loot EXCEPT !.gear = TRUE, !.item = g]
GearOnly(g) == [NoDrop EXCEPT !.gear = TRUE, !.item = g]

\* the draws of spawn_drops for the monster at each list position
DropTapes ==
    { <<LootAndGear(WeaponRoll), LootAndGear(ArmorRoll), GearOnly(WeaponRoll),
        Loot, NoDrop, NoDrop>> }

\* handle_movement: the pressed keys it finds in self.state.keys
KeySets == { {} }

\* Player.gain_exp called on its own: the amounts
ExpAmounts == {35, 1200}

---------------------------------------------------------------------------
(* Monster, create_monster.                                                *)

\* MapleHuntGame.create_monster, with the identity of the new object
create_monster(id, roll) ==
    [id |-> id,
     x |-> roll.x,
     y |-> T(ground_y - 20),
     hp |-> 20 + roll.level * 8,
     max_hp |-> 20 + roll.level * 8,
     attack |-> 4 + roll.level * 2,
     exp_reward |-> 8 + roll.level * 4,
     gold_reward |-> 6 + roll.level * 3,
     speed |-> roll.speed]

\* the monsters that n successive create_monster calls return, the first
\* with identity `first`
SpawnMany(first, n, tape) ==
    [i \in 1..n |-> create_monster(first + i - 1, tape[i])]

\* Monster.__eq__ (dataclass): every field of the source, not the identity
MonsterEq(a, b) == [a EXCEPT !.id = 0] = [b EXCEPT !.id = 0]

---------------------------------------------------------------------------
(* Equipment names, random_equipment, Drop, spawn_drops.                   *)

\* One string per Hangul syllable of the source's tables.
SPACE == " "
prefixes ==
    << <<"bit", "na", "neun">>, <<"dan", "dan", "han">>, <<"bul", "kkot">>,
       <<"eol", "eum">>, <<"ba", "ram">>, <<"byeol", "bit">> >>
weapons == << <<"geom">>, <<"chang">>, <<"hwal">>, <<"ma", "geom">>, <<"dae", "geom">> >>
armors == << <<"mang", "to">>, <<"gab", "ot">>, <<"bu", "cheu">>, <<"jang", "gab">> >>
\* equip_selected: the keywords looked for in item.name, in the order tested
armor_keywords == << <<"gab", "ot">>, <<"mang", "to">>, <<"bu", "cheu">>, <<"jang", "gab">> >>

\* MapleHuntGame.random_equipment, with the identity of the new object
random_equipment(id, g) ==
    IF g.weapon
    THEN [id |-> id, name |-> prefixes[g.prefix] \o <<SPACE>> \o weapons[g.suffix],
          attack |-> g.major, defense |-> g.minor]
    ELSE [id |-> id, name |-> prefixes[g.prefix] \o <<SPACE>> \o armors[g.suffix],
          attack |-> g.minor, defense |-> g.major]

\* Equipment.__eq__ (dataclass)
EquipmentEq(a, b) == [a EXCEPT !.id = 0] = [b EXCEPT !.id = 0]

Drop(x, y, kind, amount, equipment) ==
    [x |-> x, y |-> y, kind |-> kind, amount |-> amount, equipment |-> equipment]

\* Drop.__eq__ (dataclass)
DropEq(a, b) ==
    /\ a.x = b.x /\ a.y = b.y /\ a.kind = b.kind /\ a.amount = b.amount
    /\ EquipmentEq(a.equipment, b.equipment)

\* MapleHuntGame.spawn_drops: the drops appended, in order
spawn_drops(x, y, roll, itemId) ==
    (IF roll.exp THEN <<Drop(x + roll.dx, y, "exp", 6, None)>> ELSE <<>>)
    \o (IF roll.gold THEN <<Drop(x, y + roll.dy, "gold", 8, None)>> ELSE <<>>)
    \o (IF roll.gem THEN <<Drop(x - T(8), y - T(4), "gem", 12, None)>> ELSE <<>>)
    \o (IF roll.gear
        THEN <<Drop(x + T(6), y + T(6), "gear", 0, random_equipment(itemId, roll.item))>>
        ELSE <<>>)

\* s without its i-th element
RemoveAt(s, i) == SubSeq(s, 1, i - 1) \o SubSeq(s, i + 1, Len(s))

\* the least element of a non-empty set of integers
Least(S) == CHOOSE i \in S : \A j \in S : i <= j

\* self.state.monsters.remove(monster): list.remove drops the first element
\* that is equal (==) to its argument
remove_monster(s, m) ==
    LET I == {i \in 1..Len(s) : MonsterEq(s[i], m)}
    IN  IF I = {} THEN s ELSE RemoveAt(s, Least(I))

\* line 386 as self.state.drops.pop(0)
remove_drop_first(s, d) == RemoveAt(s, 1)

\* self.state.drops.remove(drop)
remove_drop(s, d) ==
    LET I == {i \in 1..Len(s) : DropEq(s[i], d)}
    IN  IF I = {} THEN s ELSE RemoveAt(s, Least(I))

---------------------------------------------------------------------------
(* The log.  append_log's argument is kept as the kind of line and the     *)
(* numbers formatted into it.                                              *)

Line(kind, a, b) == [msg |-> kind, a |-> a, b |-> b]
DiedLine == Line("player_down", 0, 0)            \* "용사가 쓰러졌습니다! ..."
SwingLine == Line("swing", 0, 0)                 \* "검을 휘둘렀다!"
DownLine(m) == Line("monster_down", m.exp_reward, m.gold_reward)
LevelLine(p) == Line("level_up", p.level, 0)

---------------------------------------------------------------------------
(* handle_movement and jump_player.                                        *)

\* MapleHuntGame.handle_movement: the player after the call
\* handle_movement with line 265 as `player.x = player.x + dx`
handle_movement_unclamped(p, pressed) ==
    LET dx == (IF "left" \in pressed \/ "a" \in pressed THEN -player_speed ELSE 0)
              + (IF "right" \in pressed \/ "d" \in pressed THEN player_speed ELSE 0)
        vy1 == p.vy + gravity
        y1 == p.y + vy1
        landed == y1 >= ground_limit
    IN  [p EXCEPT !.x = p.x + dx,
                  !.vy = IF landed THEN 0 ELSE vy1,
                  !.on_ground = IF landed THEN TRUE ELSE p.on_ground,
                  !.y = Max(ceiling_y, IF landed THEN ground_limit ELSE y1)]

\* handle_movement without line 267, `player.vy += self.gravity`
handle_movement_weightless(p, pressed) ==
    LET dx == (IF "left" \in pressed \/ "a" \in pressed THEN -player_speed ELSE 0)
              + (IF "right" \in pressed \/ "d" \in pressed THEN player_speed ELSE 0)
        x1 == Min(max_x, Max(min_x, p.x + dx))
        y1 == p.y + p.vy
        landed == y1 >= ground_limit
    IN  [p EXCEPT !.x = x1,
                  !.vy = IF landed THEN 0 ELSE p.vy,
                  !.on_ground = IF landed THEN TRUE ELSE p.on_ground,
                  !.y = Max(ceiling_y, IF landed THEN ground_limit ELSE y1)]

\* handle_movement without line 273, `player.vy = 0.0`
handle_movement_falling(p, pressed) ==
    LET dx == (IF "left" \in pressed \/ "a" \in pressed THEN -player_speed ELSE 0)
              + (IF "right" \in pressed \/ "d" \in pressed THEN player_speed ELSE 0)
        x1 == Min(max_x, Max(min_x, p.x + dx))
        vy1 == p.vy + gravity
        y1 == p.y + vy1
        landed == y1 >= ground_limit
    IN  [p EXCEPT !.x = x1,
                  !.vy = vy1,
                  !.on_ground = IF landed THEN TRUE ELSE p.on_ground,
                  !.y = Max(ceiling_y, IF landed THEN ground_limit ELSE y1)]

handle_movement(p, pressed) ==
    LET dx == (IF "left" \in pressed \/ "a" \in pressed THEN -player_speed ELSE 0)
              + (IF "right" \in pressed \/ "d" \in pressed THEN player_speed ELSE 0)
        x1 == Min(max_x, Max(min_x, p.x + dx))
        vy1 == p.vy + gravity
        y1 == p.y + vy1
        landed == y1 >= ground_limit
    IN  [p EXCEPT !.x = x1,
                  !.vy = IF landed THEN 0 ELSE vy1,
                  !.on_ground = IF landed THEN TRUE ELSE p.on_ground,
                  !.y = Max(ceiling_y, IF landed THEN ground_limit ELSE y1)]

\* jump_player without line 280, `if player.on_ground:`
jump_player_again(p) ==
    [p EXCEPT !.vy = -jump_strength, !.on_ground = FALSE]

\* MapleHuntGame.jump_player: the player after the call
jump_player(p) ==
    IF p.on_ground
    THEN [p EXCEPT !.vy = -jump_strength, !.on_ground = FALSE]
    ELSE p

---------------------------------------------------------------------------
(* update_monsters.                                                        *)

\* lines 302-306: the monster after its step towards the player
MonsterStep(m, p) ==
    LET dx == p.x - m.x
        dy == p.y - m.y
        dist == Max(T(1), Distance(p.x, p.y, m.x, m.y))
    IN  [m EXCEPT !.x = m.x + TruncDiv(m.speed * dx, dist),
                  !.y = m.y + TruncDiv(m.speed * dy, dist)]

\* the respawn penalty with line 315 as `max(0, player.gold) - 20`
RespawnFloorMisplaced(p) ==
    [p EXCEPT !.hp = p.max_hp,
              !.gold = Max(0, p.gold) - death_penalty,
              !.x = start_x,
              !.y = ground_limit]

\* the respawn penalty with line 315 as `player.gold -= 20`
RespawnGoldUnfloored(p) ==
    [p EXCEPT !.hp = p.max_hp,
              !.gold = p.gold - death_penalty,
              !.x = start_x,
              !.y = ground_limit]

\* lines 312-318: the respawn penalty
Respawn(p) ==
    [p EXCEPT !.hp = p.max_hp,
              !.gold = Max(0, p.gold - death_penalty),
              !.x = start_x,
              !.y = ground_limit]

\* line 310 without its max(0, ...)
hp_after_contact_unclamped(p, damage) == p.hp - damage

\* line 310: the player's hp after a contact that deals `damage`
hp_after_contact(p, damage) == Max(0, p.hp - damage)

\* line 309 without its max(1, ...)
contact_damage_unfloored(m, p) == m.attack - defense_power(p)

\* line 309: the damage of a contact with the monster m
contact_damage(m, p) == Max(1, m.attack - defense_power(p))

\* lines 301-319 without the break of line 319: after the respawn the loop
\* goes on with the monsters that are left
RECURSIVE MonsterLoopOn(_, _)
MonsterLoopOn(i, g) ==
    IF i > Len(g.monsters) THEN g
    ELSE
      LET m == g.monsters[i]
          p == g.player
          dist == Max(T(1), Distance(p.x, p.y, m.x, m.y))
          moved == [g EXCEPT !.monsters[i] = MonsterStep(m, p)]
      IN  IF dist < contact_radius
          THEN LET damage == contact_damage(m, p)
                   hp == hp_after_contact(p, damage)
                   hit == [moved EXCEPT !.hits = Append(g.hits, [id |-> m.id,
                                                                  damage |-> damage])]
               IN  IF hp = 0
                   THEN MonsterLoopOn(i + 1,
                          [hit EXCEPT !.player = Respawn([p EXCEPT !.hp = hp]),
                                        !.combo_timer = 15,
                                        !.drops = <<>>,
                                        !.log = Append(g.log, DiedLine)])
                   ELSE MonsterLoopOn(i + 1, [hit EXCEPT !.player.hp = hp,
                                                           !.combo_timer = 15])
          ELSE MonsterLoopOn(i + 1, moved)

\* lines 301-319: the for loop from the i-th monster on; g holds the fields
\* of the game it changes
RECURSIVE MonsterLoop(_, _)
MonsterLoop(i, g) ==
    IF i > Len(g.monsters) THEN g
    ELSE
      LET m == g.monsters[i]
          p == g.player
          dist == Max(T(1), Distance(p.x, p.y, m.x, m.y))
          moved == [g EXCEPT !.monsters[i] = MonsterStep(m, p)]
      IN  IF dist < contact_radius
          THEN LET damage == contact_damage(m, p)
                   hp == hp_after_contact(p, damage)
                   hit == [moved EXCEPT !.hits = Append(g.hits, [id |-> m.id,
                                                                  damage |-> damage])]
               IN  IF hp = 0
                   THEN [hit EXCEPT !.player = Respawn([p EXCEPT !.hp = hp]),
                                      !.combo_timer = 15,
                                      !.drops = <<>>,
                                      !.log = Append(g.log, DiedLine)]
                   ELSE MonsterLoop(i + 1, [hit EXCEPT !.player.hp = hp,
                                                         !.combo_timer = 15])
          ELSE MonsterLoop(i + 1, moved)

\* lines 321-322 with `if` in the place of `while`
RefillOnce(ms) == IF Len(ms) < monster_floor THEN 1 ELSE 0

\* lines 321-322: how many monsters the while loop creates
Refill(ms) == Max(0, monster_floor - Len(ms))

\* MapleHuntGame.update_monsters, its create_monster draws given
update_monsters(g, tape) ==
    LET h == MonsterLoop(1, g)
        n == Refill(h.monsters)
    IN  [h EXCEPT !.monsters = h.monsters \o SpawnMany(g.nextMonster, n, tape),
                  !.nextMonster = g.nextMonster + n]

---------------------------------------------------------------------------
(* attack_monsters and handle_monster_down.                                *)

\* the list after the object with m's identity took m's field values
\* (monster.hp = ... mutates the object the list holds)
Mutate(ms, m) == [i \in 1..Len(ms) |-> IF ms[i].id = m.id THEN m ELSE ms[i]]

\* handle_monster_down without line 339, the removal from the list
handle_monster_down_kept(g, monster, roll) ==
    LET r == gain_exp(g.player, monster.exp_reward)
        p == [r.player EXCEPT !.gold = r.player.gold + monster.gold_reward]
    IN  [g EXCEPT !.player = p,
                  !.log = g.log \o <<DownLine(monster)>>
                          \o (IF r.leveled THEN <<LevelLine(p)>> ELSE <<>>),
                  !.drops = g.drops \o spawn_drops(monster.x, monster.y, roll, g.nextItem),
                  !.nextItem = g.nextItem + (IF roll.gear THEN 1 ELSE 0)]

\* MapleHuntGame.handle_monster_down, its spawn_drops draws given
handle_monster_down(g, monster, roll) ==
    LET r == gain_exp(g.player, monster.exp_reward)
        p == [r.player EXCEPT !.gold = r.player.gold + monster.gold_reward]
    IN  [g EXCEPT !.monsters = remove_monster(g.monsters, monster),
                  !.player = p,
                  !.log = g.log \o <<DownLine(monster)>>
                          \o (IF r.leveled THEN <<LevelLine(p)>> ELSE <<>>),
                  !.drops = g.drops \o spawn_drops(monster.x, monster.y, roll, g.nextItem),
                  !.nextItem = g.nextItem + (IF roll.gear THEN 1 ELSE 0)]

\* line 333 as `if monster.hp < 0`
is_down_negative(monster) == monster.hp < 0

\* line 333: the test that sends a monster to handle_monster_down
is_down(monster) == monster.hp = 0

\* lines 327-334: the for loop over list(self.state.monsters), here `copy`,
\* from its k-th element on
RECURSIVE AttackLoop(_, _, _, _, _)
AttackLoop(copy, k, g, bonus, droptape) ==
    IF k > Len(copy) THEN g
    ELSE
      LET monster == copy[k]
          p == g.player
          dist == Distance(monster.x, monster.y, p.x, p.y)
      IN  IF dist < melee_radius
          THEN LET damage == attack_power(p) + bonus[k]
                   hurt == [monster EXCEPT !.hp = Max(0, monster.hp - damage)]
                   g1 == [g EXCEPT !.monsters = Mutate(g.monsters, hurt),
                                   !.hits = Append(g.hits, [id |-> monster.id,
                                                            damage |-> damage])]
               IN  IF is_down(hurt)
                   THEN AttackLoop(copy, k + 1,
                                   handle_monster_down(g1, hurt, droptape[k]),
                                   bonus, droptape)
                   ELSE AttackLoop(copy, k + 1, g1, bonus, droptape)
          ELSE AttackLoop(copy, k + 1, g, bonus, droptape)

\* MapleHuntGame.attack_monsters, its random draws given
attack_monsters(g, bonus, droptape) ==
    LET h == AttackLoop(g.monsters, 1, g, bonus, droptape)
    IN  IF h.hits # <<>> THEN [h EXCEPT !.log = Append(h.log, SwingLine)] ELSE h

---------------------------------------------------------------------------
(* collect_drops.                                                          *)

\* line 381 without its min(player.max_hp, ...)
hp_after_gem_uncapped(p) == p.hp + gem_heal

\* line 381: the player's hp after a gem
hp_after_gem(p) == Min(p.max_hp, p.hp + gem_heal)

\* lines 373-385: what picking up `drop` does to the game
PickUp(g, drop) ==
    CASE drop.kind = "exp" ->
           [g EXCEPT !.player = gain_exp(g.player, drop.amount).player,
                     !.log = Append(g.log, Line("exp_orb", drop.amount, 0))]
      [] drop.kind = "gold" ->
           [g EXCEPT !.player.gold = g.player.gold + drop.amount,
                     !.log = Append(g.log, Line("gold_pouch", drop.amount, 0))]
      [] drop.kind = "gem" ->
           [g EXCEPT !.player.gold = g.player.gold + drop.amount,
                     !.player.hp = hp_after_gem(g.player),
                     !.log = Append(g.log, Line("gem", 0, 0))]
      [] drop.kind = "gear" /\ drop.equipment # None ->
           [g EXCEPT !.inventory = Append(g.inventory, drop.equipment),
                     !.log = Append(g.log, Line("gear", drop.equipment.id, 0))]
      [] OTHER -> g

\* lines 370-386: the for loop over list(self.state.drops), here `copy`,
\* from its k-th element on
RECURSIVE CollectLoop(_, _, _)
CollectLoop(copy, k, g) ==
    IF k > Len(copy) THEN g
    ELSE
      LET drop == copy[k]
          dist == Distance(drop.x, drop.y, g.player.x, g.player.y)
      IN  IF dist < pickup_radius
          THEN LET g1 == PickUp(g, drop)
               IN  CollectLoop(copy, k + 1,
                               [g1 EXCEPT !.drops = remove_drop(g1.drops, drop)])
          ELSE CollectLoop(copy, k + 1, g)

\* MapleHuntGame.collect_drops
collect_drops(g) == CollectLoop(g.drops, 1, g)

---------------------------------------------------------------------------
(* equip_selected and discard_selected.                                    *)

\* Python's `kw in name` on strings
IsSubstring(kw, name) ==
    \E i \in 0..(Len(name) - Len(kw)) : SubSeq(name, i + 1, i + Len(kw)) = kw

\* line 396 without its last test, `"장갑" in item.name`
IsArmorNameThreeTests(name) ==
    \E k \in 1..3 : IsSubstring(armor_keywords[k], name)

\* line 396: the test that sends an item to the armor slot
IsArmorName(name) ==
    \E k \in 1..Len(armor_keywords) : IsSubstring(armor_keywords[k], name)

\* equip_selected without lines 397-398 and 402-403: the item that was
\* equipped is not put back
equip_selected_dropping(g, index) ==
    LET item == g.inventory[index]
        rest == RemoveAt(g.inventory, index)
    IN  IF IsArmorName(item.name)
        THEN [g EXCEPT !.inventory = rest,
                       !.player.armor = item,
                       !.log = Append(g.log, Line("equip_armor", item.id, 0))]
        ELSE [g EXCEPT !.inventory = rest,
                       !.player.weapon = item,
                       !.log = Append(g.log, Line("equip_weapon", item.id, 0))]

\* equip_selected with line 395 as `item = self.state.inventory[index]`
equip_selected_copying(g, index) ==
    LET item == g.inventory[index]
        rest == g.inventory
    IN  IF IsArmorName(item.name)
        THEN [g EXCEPT !.inventory = IF g.player.armor # None
                                     THEN Append(rest, g.player.armor) ELSE rest,
                       !.player.armor = item,
                       !.log = Append(g.log, Line("equip_armor", item.id, 0))]
        ELSE [g EXCEPT !.inventory = IF g.player.weapon # None
                                     THEN Append(rest, g.player.weapon) ELSE rest,
                       !.player.weapon = item,
                       !.log = Append(g.log, Line("equip_weapon", item.id, 0))]

\* MapleHuntGame.equip_selected with the index-th line of the list box
\* selected (index counts from 1)
equip_selected(g, index) ==
    LET item == g.inventory[index]
        rest == RemoveAt(g.inventory, index)
    IN  IF IsArmorName(item.name)
        THEN [g EXCEPT !.inventory = IF g.player.armor # None
                                     THEN Append(rest, g.player.armor) ELSE rest,
                       !.player.armor = item,
                       !.log = Append(g.log, Line("equip_armor", item.id, 0))]
        ELSE [g EXCEPT !.inventory = IF g.player.weapon # None
                                     THEN Append(rest, g.player.weapon) ELSE rest,
                       !.player.weapon = item,
                       !.log = Append(g.log, Line("equip_weapon", item.id, 0))]

\* MapleHuntGame.discard_selected with the index-th line selected
discard_selected(g, index) ==
    [g EXCEPT !.inventory = RemoveAt(g.inventory, index),
              !.log = Append(g.log, Line("discard", g.inventory[index].id, 0))]

---------------------------------------------------------------------------
(* The state machine.                                                      *)

\* the game an operation starts from; log and hits record one operation
Game ==
    [player |-> player, monsters |-> monsters, drops |-> drops,
     inventory |-> inventory, combo_timer |-> combo_timer,
     nextMonster |-> nextMonster, nextItem |-> nextItem,
     log |-> <<>>, hits |-> <<>>]

\* the game an operation `op` leaves
Becomes(h, op) ==
    /\ player' = h.player
    /\ monsters' = h.monsters
    /\ drops' = h.drops
    /\ inventory' = h.inventory
    /\ combo_timer' = h.combo_timer
    /\ nextMonster' = h.nextMonster
    /\ nextItem' = h.nextItem
    /\ log' = h.log
    /\ hits' = h.hits
    /\ lastOp' = op

\* no gain_exp call to report
NoGain == [amount |-> 0, leveled |-> FALSE]

\* MapleHuntGame.__init__ up to its call of self.loop(): GameState(), the
\* player put on the ground, spawn_initial_monsters and the welcome line
Init ==
    \E tape \in MonsterTapes :
        /\ player = InitialPlayer
        /\ monsters = SpawnMany(1, initial_monsters, tape)
        /\ drops = <<>>
        /\ inventory = <<>>
        /\ combo_timer = 0
        /\ nextMonster = initial_monsters + 1
        /\ nextItem = 1
        /\ lastOp = "init"
        /\ log = <<Line("welcome", 0, 0)>>
        /\ hits = <<>>
        /\ ticks = 0
        /\ inputs = 0
        /\ lastGain = NoGain

\* loop() is between its calls of handle_movement and collect_drops
InLoop == lastOp \in {"handle_movement", "update_monsters"}

\* Tk's event loop is free to run a key or button handler: __init__ has
\* returned (it runs the first loop() itself) and no loop() is under way
Idle == lastOp # "init" /\ ~InLoop

\* loop(), line 250
HandleMovement ==
    /\ lastOp = "init" \/ Idle
    /\ ticks < MaxTicks
    /\ \E pressed \in KeySets :
           Becomes([Game EXCEPT !.player = handle_movement(player, pressed)],
                   "handle_movement")
    /\ ticks' = ticks + 1
    /\ lastGain' = NoGain
    /\ UNCHANGED inputs

\* loop(), line 251
UpdateMonsters ==
    /\ lastOp = "handle_movement"
    /\ \E tape \in MonsterTapes :
           Becomes(update_monsters(Game, tape), "update_monsters")
    /\ lastGain' = NoGain
    /\ UNCHANGED <<ticks, inputs>>

\* loop(), line 252
CollectDrops ==
    /\ lastOp = "update_monsters"
    /\ Becomes(collect_drops(Game), "collect_drops")
    /\ lastGain' = NoGain
    /\ UNCHANGED <<ticks, inputs>>

\* on_key_press, line 239
JumpPlayer ==
    /\ Idle
    /\ inputs < MaxInputs
    /\ Becomes([Game EXCEPT !.player = jump_player(player)], "jump_player")
    /\ inputs' = inputs + 1
    /\ lastGain' = NoGain
    /\ UNCHANGED ticks

\* on_key_press, line 241
AttackMonsters ==
    /\ Idle
    /\ inputs < MaxInputs
    /\ \E bonus \in BonusTapes, droptape \in DropTapes :
           Becomes(attack_monsters(Game, bonus, droptape), "attack_monsters")
    /\ inputs' = inputs + 1
    /\ lastGain' = NoGain
    /\ UNCHANGED ticks

\* the "equip" button of the inventory window
EquipSelected ==
    /\ Idle
    /\ \E index \in 1..Len(inventory) :
           Becomes(equip_selected(Game, index), "equip_selected")
    /\ lastGain' = NoGain
    /\ UNCHANGED <<ticks, inputs>>

\* the "discard" button of the inventory window
DiscardSelected ==
    /\ Idle
    /\ inputs < MaxInputs
    /\ \E index \in 1..Len(inventory) :
           Becomes(discard_selected(Game, index), "discard_selected")
    /\ inputs' = inputs + 1
    /\ lastGain' = NoGain
    /\ UNCHANGED ticks

\* Player.gain_exp called on its own
GainExp ==
    /\ Idle
    /\ inputs < MaxInputs
    /\ \E amount \in ExpAmounts :
           /\ Becomes([Game EXCEPT !.player = gain_exp(player, amount).player],
                      "gain_exp")
           /\ lastGain' = [amount |-> amount,
                           leveled |-> gain_exp(player, amount).leveled]
    /\ inputs' = inputs + 1
    /\ UNCHANGED ticks

Next ==
    \/ HandleMovement
    \/ UpdateMonsters
    \/ CollectDrops
    \/ JumpPlayer
    \/ AttackMonsters
    \/ EquipSelected
    \/ DiscardSelected
    \/ GainExp

Spec == Init /\ [][Next]_vars

---------------------------------------------------------------------------
(* A second specification, for the classification of gear by name: the    *)
(* inventory operations applied to every item random_equipment can name.   *)

\* every draw of random_equipment's random() < 0.5 and of its two choices;
\* the stats, which the classification does not read, are one draw each
AllRolls ==
    [weapon : {TRUE}, prefix : 1..Len(prefixes), suffix : 1..Len(weapons),
     major : {7}, minor : {0}]
    \cup [weapon : {FALSE}, prefix : 1..Len(prefixes), suffix : 1..Len(armors),
          major : {3}, minor : {2}]

\* the game when collect_drops has picked up two gear drops: the first is
\* any item random_equipment can make, the second a sword or a cloak; the
\* fields the inventory operations do not read are those of a new game whose
\* monsters update_monsters has just created
GearInit ==
    \E tape \in MonsterTapes, g \in AllRolls, h \in {WeaponRoll, ArmorRoll} :
        /\ player = InitialPlayer
        /\ monsters = SpawnMany(1, monster_floor, tape)
        /\ drops = <<>>
        /\ inventory = <<random_equipment(1, g), random_equipment(2, h)>>
        /\ combo_timer = 0
        /\ nextMonster = monster_floor + 1
        /\ nextItem = 3
        /\ lastOp = "collect_drops"
        /\ log = <<Line("gear", 1, 0), Line("gear", 2, 0)>>
        /\ hits = <<>>
        /\ ticks = 0
        /\ inputs = 0
        /\ lastGain = NoGain

GearNext ==
    \/ EquipSelected
    \/ DiscardSelected

GearSpec == GearInit /\ [][GearNext]_vars

---------------------------------------------------------------------------
(* A third specification, for jumping and landing: loop() re-arms itself   *)
(* with root.after(40, self.loop) at the end of every run, so the ticks    *)
(* never stop; the space bar is pressed during the first MaxTicks ticks,   *)
(* at most MaxInputs times.                                                *)

\* loop(), line 250, run for ever; `ticks` stops counting at MaxTicks
Tick ==
    /\ lastOp = "init" \/ Idle
    /\ \E pressed \in KeySets :
           Becomes([Game EXCEPT !.player = handle_movement(player, pressed)],
                   "handle_movement")
    /\ ticks' = Min(ticks + 1, MaxTicks)
    /\ lastGain' = NoGain
    /\ UNCHANGED inputs

\* on_key_press, line 239, early in the game
EarlyJump ==
    /\ ticks < MaxTicks
    /\ JumpPlayer

LandNext ==
    \/ Tick
    \/ UpdateMonsters
    \/ CollectDrops
    \/ EarlyJump

\* loop() goes on: it calls handle_movement, update_monsters and
\* collect_drops in turn (lines 250-252) and schedules its next run (line
\* 255); in terms of the position of the program alone
LoopContinues ==
    \/ (lastOp = "init" \/ Idle) /\ lastOp' = "handle_movement"
    \/ lastOp = "handle_movement" /\ lastOp' = "update_monsters"
    \/ lastOp = "update_monsters" /\ lastOp' = "collect_drops"

\* Tk runs a scheduled loop() when it is due, and a running loop() runs on
LandFairness == WF_lastOp(LoopContinues)

LandSpec == Init /\ [][LandNext]_vars /\ LandFairness

---------------------------------------------------------------------------
(* A fourth specification, for the playfield: the arrow keys and a, d are  *)
(* held or released between ticks, from games in which the player has      *)
(* walked for a while.                                                     *)

\* loop() runs at most WalkTicks times in WalkSpec
WalkTicks == 4

\* self.state.keys at a tick: nothing held, one direction, the other
\* direction by its letter, both directions at once
MoveKeySets == { {}, {"left"}, {"d"}, {"left", "right"}, {"a", "right", "j"} }

\* one run of loop(), lines 250-252, with `pressed` held
LoopOnce(g, pressed, tape) ==
    LET moved == [g EXCEPT !.player = handle_movement(g.player, pressed),
                           !.log = <<>>, !.hits = <<>>]
        fought == [update_monsters(moved, tape) EXCEPT !.log = <<>>, !.hits = <<>>]
    IN  collect_drops(fought)

\* the games at the start and after each of n runs of loop() with
\* `pressed` held all the time
RECURSIVE Runs(_, _, _, _)
Runs(g, pressed, tape, n) ==
    IF n = 0 THEN <<g>>
    ELSE LET before == Runs(g, pressed, tape, n - 1)
         IN  Append(before, LoopOnce(before[n], pressed, tape))

\* the game after n runs of loop() with `pressed` held
LoopN(g, pressed, tape, n) == Runs(g, pressed, tape, n)[n + 1]

\* the game __init__ builds
NewGame(tape) ==
    [player |-> InitialPlayer,
     monsters |-> SpawnMany(1, initial_monsters, tape),
     drops |-> <<>>, inventory |-> <<>>, combo_timer |-> 0,
     nextMonster |-> initial_monsters + 1, nextItem |-> 1,
     log |-> <<Line("welcome", 0, 0)>>, hits |-> <<>>]

\* the game after seven ticks with no key touched: the player, at 400, has
\* 12 hp left and the monsters are upon them
Stood7 == LoopN(NewGame(StrongTape), {}, StrongTape, 7)

\* the game after 94 ticks with the left arrow held (in three stretches):
\* the player is at x = 24, a step away from the left wall
WalkedLeft32 == LoopN(NewGame(StrongTape), {"left"}, StrongTape, 32)
WalkedLeft63 == LoopN(WalkedLeft32, {"left"}, StrongTape, 31)
WalkedLeft94 == LoopN(WalkedLeft63, {"left"}, StrongTape, 31)

\* the game after 74 ticks with d held: the player is at x = 696, a step
\* away from the right wall
WalkedRight25 == LoopN(NewGame(StrongTape), {"d"}, StrongTape, 25)
WalkedRight50 == LoopN(WalkedRight25, {"d"}, StrongTape, 25)
WalkedRight74 == LoopN(WalkedRight50, {"d"}, StrongTape, 24)

\* the variables hold the game g, whose last operation was `op`
StartsAs(g, op) ==
    /\ player = g.player
    /\ monsters = g.monsters
    /\ drops = g.drops
    /\ inventory = g.inventory
    /\ combo_timer = g.combo_timer
    /\ nextMonster = g.nextMonster
    /\ nextItem = g.nextItem
    /\ lastOp = op
    /\ log = g.log
    /\ hits = g.hits
    /\ ticks = 0
    /\ inputs = 0
    /\ lastGain = NoGain

\* a new game, or a game that has run for a while: `ticks` counts from here
WalkInit ==
    \/ \E tape \in MonsterTapes : StartsAs(NewGame(tape), "init")
    \/ \E g \in {Stood7, WalkedLeft94, WalkedRight74} : StartsAs(g, "collect_drops")

\* loop(), line 250, with the keys that are held at this tick
Walk ==
    /\ lastOp = "init" \/ Idle
    /\ ticks < WalkTicks
    /\ \E pressed \in MoveKeySets :
           Becomes([Game EXCEPT !.player = handle_movement(player, pressed)],
                   "handle_movement")
    /\ ticks' = ticks + 1
    /\ lastGain' = NoGain
    /\ UNCHANGED inputs

WalkNext ==
    \/ Walk
    \/ UpdateMonsters
    \/ CollectDrops
    \/ JumpPlayer

WalkSpec == WalkInit /\ [][WalkNext]_vars

---------------------------------------------------------------------------
(* A fifth specification, for the termination of Player.gain_exp: the      *)
(* call taken one test of its while condition at a time.  lastOp is        *)
(* "gain_exp_loop" while the call is at line 56 and "gain_exp" when it has  *)
(* returned; lastGain holds the argument, the local `leveled` and the       *)
(* player as the call found them.                                          *)

\* the amounts gain_exp is called with: nothing, one short of the first
\* threshold, the threshold itself, a little more, and enough for many levels
GainAmounts == {0, 29, 30, 35, 1200}

\* lines 54-55: the call begins
GainExpCall ==
    /\ lastOp \in {"init", "gain_exp"}
    /\ inputs < MaxInputs
    /\ \E amount \in GainAmounts :
           /\ player' = [player EXCEPT !.exp = player.exp + amount]
           /\ lastGain' = [amount |-> amount, leveled |-> FALSE, before |-> player]
    /\ lastOp' = "gain_exp_loop"
    /\ inputs' = inputs + 1
    /\ UNCHANGED <<monsters, drops, inventory, combo_timer, nextMonster,
                   nextItem, log, hits, ticks>>

\* lines 56-64: the while condition holds and the body runs once
GainExpIterate ==
    /\ lastOp = "gain_exp_loop"
    /\ player.exp >= player.exp_to_next
    /\ player' = LevelUp(player)
    /\ lastGain' = [lastGain EXCEPT !.leveled = TRUE]
    /\ UNCHANGED <<monsters, drops, inventory, combo_timer, nextMonster,
                   nextItem, lastOp, log, hits, ticks, inputs>>

\* lines 56 and 65: the while condition fails and the call returns `leveled`
GainExpReturn ==
    /\ lastOp = "gain_exp_loop"
    /\ ~(player.exp >= player.exp_to_next)
    /\ lastOp' = "gain_exp"
    /\ UNCHANGED <<player, monsters, drops, inventory, combo_timer, nextMonster,
                   nextItem, log, hits, ticks, inputs, lastGain>>

ExpNext ==
    \/ GainExpCall
    \/ GainExpIterate
    \/ GainExpReturn

\* a call that has begun runs on: the interpreter takes its next step
ExpFairness ==
    /\ WF_vars(GainExpIterate)
    /\ WF_vars(GainExpReturn)

ExpSpec == Init /\ [][ExpNext]_vars /\ ExpFairness

---------------------------------------------------------------------------
(* Properties.  Action properties speak of the step that an operation     *)
(* takes: lastOp' names the operation, unprimed variables are the state    *)
(* it was called in and primed variables the state it returned in.         *)

\* some line of the log of the last operation is `line`
Logged(line) == \E i \in 1..Len(log) : log[i] = line

\* some line of the log of the last operation is of the kind `msg`
LoggedKind(msg) == \E i \in 1..Len(log) : log[i].msg = msg

\* C1: after each of handle_movement, jump_player, update_monsters,
\* attack_monsters, collect_drops, gain_exp, equip_selected and
\* discard_selected, the player's hp is at least 0 and at most max_hp.
C1_HpWithinBounds == 0 <= player.hp /\ player.hp <= player.max_hp

\* C1 happens: the player has levelled up (hp and max_hp both grew) and a
\* monster in contact has then taken hp away without killing the player
C1_Witness ==
    /\ lastOp = "update_monsters"
    /\ combo_timer = 15
    /\ ~Logged(DiedLine)
    /\ player.level > 1
    /\ 0 < player.hp /\ player.hp < player.max_hp

\* C2: the level never decreases, whatever operation runs, and after every
\* gain_exp call (the amounts are non-negative, and some cross several
\* thresholds at once) exp is strictly below exp_to_next.
C2_LevelMonotonicExpBelowThreshold ==
    /\ [](player.exp < player.exp_to_next)
    /\ [][player'.level >= player.level]_vars

\* C2 happens: one gain_exp call has crossed several thresholds
C2_Witness ==
    /\ lastOp = "gain_exp"
    /\ lastGain.leveled
    /\ player.level >= 3
    /\ player.exp < player.exp_to_next

\* floor(1.35 * t + 5), from the definition of floor: the integer k with
\* k <= 1.35 * t + 5 < k + 1, which lies between t + 5 and 2 * t + 5
Floor135Plus5(t) ==
    LET near == (27 * t) \div 20 + 5
    IN  CHOOSE k \in (near - 2)..(near + 2) :
            /\ t + 5 <= k /\ k <= 2 * t + 5
            /\ 100 * k <= 135 * t + 500 /\ 135 * t + 500 < 100 * (k + 1)

\* exp and exp_to_next after n level-ups that start from exp e and threshold t
RECURSIVE AfterLevelUps(_, _, _)
AfterLevelUps(n, e, t) ==
    IF n = 0 THEN <<e, t>> ELSE AfterLevelUps(n - 1, e - t, Floor135Plus5(t))

\* C3: every level-up inside gain_exp takes the current threshold T off exp,
\* adds one to the level and makes floor(1.35 * T + 5) the new threshold;
\* from exp = 0 and exp_to_next = 30, gain_exp(35) leaves the level one
\* higher, exp = 5 and exp_to_next = 45, and returns True.
C3_LevelUpArithmetic ==
    [][lastOp' = "gain_exp" =>
         /\ player'.level >= player.level
         /\ <<player'.exp, player'.exp_to_next>>
              = AfterLevelUps(player'.level - player.level,
                              player.exp + lastGain'.amount, player.exp_to_next)
         /\ (player.exp = 0 /\ player.exp_to_next = 30 /\ lastGain'.amount = 35) =>
              /\ player'.level = player.level + 1
              /\ player'.exp = 5
              /\ player'.exp_to_next = 45
              /\ lastGain'.leveled]_vars

\* C3 happens: gain_exp(35) has returned True from exp = 0, exp_to_next = 30
C3_Witness ==
    /\ lastOp = "gain_exp"
    /\ lastGain = [amount |-> 35, leveled |-> TRUE]
    /\ player.level = 2 /\ player.exp = 5 /\ player.exp_to_next = 45

\* the identities of the monsters of the list ms
Ids(ms) == {ms[i].id : i \in 1..Len(ms)}

\* the sum of n successive thresholds, the first of which is t
RECURSIVE SumThresholds(_, _)
SumThresholds(n, t) ==
    IF n = 0 THEN 0 ELSE t + SumThresholds(n - 1, Floor135Plus5(t))

\* all the exp the player p has been granted since level 1, where
\* exp_to_next is 30
TotalExp(p) == p.exp + SumThresholds(p.level - 1, 30)

\* the monster m is within melee radius of the player the attack starts from
InMelee(m) == Distance(m.x, m.y, player.x, player.y) < 600

\* what attack_monsters has done when it returns: every monster in the
\* radius was hit once, and went if its hp was at most the damage or lost
\* the damage otherwise; the others are as they were; the rewards of the
\* monsters that went, and nothing else, were added to gold and exp, with
\* one "monster down" line each
AttackEffect ==
    /\ \A k \in 1..Len(hits') : hits'[k].id \in Ids(monsters)
    /\ \A i \in 1..Len(monsters) :
         LET m == monsters[i]
             H == {k \in 1..Len(hits') : hits'[k].id = m.id}
         IN  IF InMelee(m)
             THEN /\ Cardinality(H) = 1
                  /\ LET damage == hits'[CHOOSE k \in H : TRUE].damage
                     IN  IF m.hp <= damage
                         THEN m.id \notin Ids(monsters')
                         ELSE \E j \in 1..Len(monsters') :
                                monsters'[j] = [m EXCEPT !.hp = m.hp - damage]
             ELSE /\ H = {}
                  /\ \E j \in 1..Len(monsters') : monsters'[j] = m
    /\ LET gone(i) == monsters[i].id \notin Ids(monsters')
           gold == SumSeq([i \in 1..Len(monsters) |->
                             IF gone(i) THEN monsters[i].gold_reward ELSE 0])
           exp == SumSeq([i \in 1..Len(monsters) |->
                            IF gone(i) THEN monsters[i].exp_reward ELSE 0])
           downs == {k \in 1..Len(log') : log'[k].msg = "monster_down"}
       IN  /\ player'.gold = player.gold + gold
           /\ TotalExp(player') = TotalExp(player) + exp
           /\ Cardinality(downs) = Cardinality({i \in 1..Len(monsters) : gone(i)})
    /\ Ids(monsters') \subseteq Ids(monsters)

\* a monster that has left the list is never in it again
NeverBack ==
    \A id \in 1..(nextMonster - 1) : id \notin Ids(monsters) => id \notin Ids(monsters')

\* C4: attack_monsters removes every monster within melee radius (distance
\* < 60) whose hp is at most the damage of the hit and grants its exp_reward
\* and gold_reward exactly once; a removed monster is never hit or rewarded
\* by a later attack; monsters outside the radius are neither damaged nor
\* removed.
C4_AttackKillsAndRewardsOnce ==
    [][(lastOp' = "attack_monsters" => AttackEffect) /\ NeverBack]_vars

\* C4 happens: one swing has killed a monster, hurt another that survived
\* and left a monster outside the radius alone
C4_Witness ==
    /\ lastOp = "attack_monsters"
    /\ LoggedKind("monster_down")
    /\ \E i \in 1..Len(monsters) :
         /\ monsters[i].hp < monsters[i].max_hp
         /\ \E k \in 1..Len(hits) : hits[k].id = monsters[i].id
    /\ \E i \in 1..Len(monsters) :
         /\ ~InMelee(monsters[i])
         /\ monsters[i].hp = monsters[i].max_hp

\* C5: when update_monsters returns there are at least 6 monsters, also
\* after attack_monsters has removed monsters since the last tick and also
\* when the player died and the monster loop was left early.
C5_PopulationFloor == lastOp = "update_monsters" => Len(monsters) >= 6

\* C5 happens: update_monsters returns from a call in which the player
\* died, attacks have removed monsters before (more monsters were created
\* than the two that fill the initial four up to six) and a monster
\* stands on the spawn line y = 420, where create_monster puts it
C5_Witness ==
    /\ lastOp = "update_monsters"
    /\ Logged(DiedLine)
    /\ Len(monsters) >= 6
    /\ nextMonster > initial_monsters + 3
    /\ \E i \in 1..Len(monsters) : monsters[i].y = T(420)

\* the drop d is within pickup radius of the player collect_drops starts from
InPickup(d) == Distance(d.x, d.y, player.x, player.y) < 250

\* the drops collect_drops picks up, in the order of the list
Collected == SelectSeq(drops, InPickup)

\* C6: collect_drops removes a drop if and only if its distance to the
\* player at call time is < 25: every drop closer than 25, of any kind, is
\* removed and every drop at distance >= 25 stays in the list unchanged.
C6_CollectIffInRadius ==
    [][lastOp' = "collect_drops" =>
         drops' = SelectSeq(drops, LAMBDA d : ~InPickup(d))]_vars

\* C6 happens: collect_drops has picked up drops of two kinds and left
\* others lying
C6_Witness ==
    /\ lastOp = "collect_drops"
    /\ LoggedKind("gold_pouch")
    /\ LoggedKind("gear")
    /\ drops # <<>>

\* the sum of the amounts of the collected drops of the given kinds
CollectedAmount(kinds) ==
    LET c == Collected
    IN  SumSeq([i \in 1..Len(c) |-> IF c[i].kind \in kinds THEN c[i].amount ELSE 0])

\* the equipment of the collected gear drops, in the order of the list
CollectedGear ==
    LET gear == SelectSeq(Collected, LAMBDA d : d.kind = "gear")
    IN  [i \in 1..Len(gear) |-> gear[i].equipment]

\* C7: a collected gem adds its amount to gold and heals 6 hp, capped at
\* max_hp; a collected exp drop goes through gain_exp; a gold drop only adds
\* gold; a gear drop only appends its equipment to the inventory.
C7_PickupEffects ==
    [][lastOp' = "collect_drops" =>
         LET gems == Len(SelectSeq(Collected, LAMBDA d : d.kind = "gem"))
             levels == player'.level - player.level
         IN  /\ player'.gold = player.gold + CollectedAmount({"gold", "gem"})
             /\ levels >= 0
             /\ <<player'.exp, player'.exp_to_next>>
                  = AfterLevelUps(levels, player.exp + CollectedAmount({"exp"}),
                                  player.exp_to_next)
             /\ player'.exp < player'.exp_to_next
             /\ player'.max_hp = player.max_hp + 15 * levels
             /\ levels = 0 =>
                  player'.hp = Min(player.max_hp, player.hp + 6 * gems)
             /\ player'.hp <= player'.max_hp
             /\ inventory' = inventory \o CollectedGear
             /\ player'.weapon = player.weapon /\ player'.armor = player.armor
             /\ player'.x = player.x /\ player'.y = player.y]_vars

\* C7 happens: a player whom a monster has hurt has collected a gem, an exp
\* drop, a gold drop and a gear drop in one call and stands at max_hp
C7_Witness ==
    /\ lastOp = "collect_drops"
    /\ LoggedKind("gem") /\ LoggedKind("exp_orb")
    /\ LoggedKind("gold_pouch") /\ LoggedKind("gear")
    /\ combo_timer = 15
    /\ player.hp = player.max_hp
    /\ inventory # <<>>

\* equip_selected has put inventory[i] into the slot that held `old` and
\* holds `new` now: the item that was in the slot, if any, is the last of
\* the inventory and the size is the same; the size is one less if the slot
\* was empty
Equipped(i, old, new) ==
    /\ new = inventory[i]
    /\ IF old # None
       THEN /\ inventory' = Append(RemoveAt(inventory, i), old)
            /\ Len(inventory') = Len(inventory)
       ELSE /\ inventory' = RemoveAt(inventory, i)
            /\ Len(inventory') = Len(inventory) - 1

\* C8: equipping a weapon while another weapon is equipped returns the
\* previous weapon to the inventory and leaves the inventory size unchanged;
\* the same holds for armor; with the target slot empty the inventory size
\* decreases by exactly one.
C8_EquipSwapsOrTakes ==
    [][lastOp' = "equip_selected" =>
         \E i \in 1..Len(inventory) :
            \/ /\ player'.armor = player.armor
               /\ Equipped(i, player.weapon, player'.weapon)
            \/ /\ player'.weapon = player.weapon
               /\ Equipped(i, player.armor, player'.armor)]_vars

\* C8 happens: equip_selected has equipped a weapon and another weapon is
\* the last item of the inventory, where a swap puts the previous weapon
C8_Witness ==
    /\ lastOp = "equip_selected"
    /\ LoggedKind("equip_weapon")
    /\ player.weapon # None
    /\ inventory # <<>>
    /\ ~IsArmorName(inventory[Len(inventory)].name)

\* the identities of the Equipment objects held anywhere, holder by holder
Held ==
    [i \in 1..Len(inventory) |-> inventory[i].id]
    \o (IF player.weapon # None THEN <<player.weapon.id>> ELSE <<>>)
    \o (IF player.armor # None THEN <<player.armor.id>> ELSE <<>>)
    \o LET gear == SelectSeq(drops, LAMBDA d : d.equipment # None)
       IN  [i \in 1..Len(gear) |-> gear[i].equipment.id]

\* C9: each Equipment item is held by at most one of the inventory (at one
\* position), the weapon slot, the armor slot and a pending drop, in every
\* reachable state.
C9_EquipmentHeldOnce ==
    \A i, j \in 1..Len(Held) : Held[i] = Held[j] => i = j

\* C9 happens: items are held by the weapon slot, the inventory and a
\* pending drop at the same time, after an equip
C9_Witness ==
    /\ player.weapon # None
    /\ inventory # <<>>
    /\ \E i \in 1..Len(drops) : drops[i].kind = "gear"
    /\ Len(Held) >= 3

\* C10: when contact damage brings hp to 0 in update_monsters, on return hp
\* is max_hp, gold is max(0, previous gold - 20), the player is at the start
\* position (x = 400, y = 388) and the drop list is empty.
C10_RespawnPenalty ==
    [][(lastOp' = "update_monsters"
        /\ \E k \in 1..Len(log') : log'[k] = DiedLine) =>
         /\ player'.hp = player'.max_hp
         /\ player'.gold = (IF player.gold >= 20 THEN player.gold - 20 ELSE 0)
         /\ player'.x = T(400) /\ player'.y = T(388)
         /\ drops' = <<>>]_vars

\* C10 happens: the player died in update_monsters with more than 20 gold
C10_Witness ==
    /\ lastOp = "update_monsters"
    /\ Logged(DiedLine)
    /\ player.gold > 0
    /\ player.hp = player.max_hp
    /\ drops = <<>>

\* the distance update_monsters measures for the i-th monster: between the
\* monster and the player as they are when the call starts, floored at 1.0
ContactDistance(i) ==
    LET d == Distance(player.x, player.y, monsters[i].x, monsters[i].y)
    IN  IF d < 10 THEN 10 ELSE d

\* the hp the i-th monster takes if update_monsters gets to it
ContactCost(i) ==
    IF ContactDistance(i) < 260
    THEN LET reduced == monsters[i].attack - defense_power(player)
         IN  IF reduced >= 1 THEN reduced ELSE 1
    ELSE 0

\* the hp the first k monsters take together
CostUpTo(k) == SumSeq([i \in 1..k |-> ContactCost(i)])

\* the position of the monster that deals the killing blow, if any
IsKiller(k) ==
    /\ k \in 1..Len(monsters)
    /\ CostUpTo(k) >= player.hp
    /\ CostUpTo(k - 1) < player.hp

\* C11: when the player dies in update_monsters, every monster later in the
\* list than the one that dealt the killing blow keeps its position and
\* deals no damage in that call (the player comes back with hp = max_hp).
C11_BreakLeavesRestAlone ==
    [][lastOp' = "update_monsters" =>
         \A k \in 1..Len(monsters) :
            IsKiller(k) =>
               /\ \A i \in (k + 1)..Len(monsters) : monsters'[i] = monsters[i]
               /\ \A i \in 1..k : monsters'[i] = MonsterStep(monsters[i], player)
               /\ player'.hp = player'.max_hp]_vars

\* C11 happens: the player died in update_monsters, and a monster that is
\* later in the list than the one whose contact was the last of the call
\* stands within contact radius of the player
C11_Witness ==
    /\ lastOp = "update_monsters"
    /\ Logged(DiedLine)
    /\ hits # <<>>
    /\ \E k, j \in 1..Len(monsters) :
          /\ k < j
          /\ monsters[k].id = hits[Len(hits)].id
          /\ Distance(player.x, player.y, monsters[j].x, monsters[j].y) < 260

\* C12: the player's gold is never negative in any reachable state.
C12_GoldNonNegative == player.gold >= 0

\* C12 happens: the player died after a kill had brought gold (a monster
\* beyond the first six was created) and came back with no gold left
C12_Witness ==
    /\ lastOp = "update_monsters"
    /\ Logged(DiedLine)
    /\ nextMonster > initial_monsters + 3
    /\ player.gold = 0

\* the positions of the monsters update_monsters gets to and finds nearer
\* than 26, in the order of the list
Contacts ==
    LET last == IF \E k \in 1..Len(monsters) : IsKiller(k)
                THEN CHOOSE k \in 1..Len(monsters) : IsKiller(k)
                ELSE Len(monsters)
    IN  SelectSeq([i \in 1..last |-> i], LAMBDA i : ContactCost(i) > 0)

\* C15: in update_monsters a monster damages the player only when its
\* distance to the player, measured before its step, is < 26; the damage is
\* max(1, monster.attack - defense_power()), so at least 1; a monster at
\* distance >= 26 leaves hp unchanged.
C15_ContactDamage ==
    [][lastOp' = "update_monsters" =>
         LET total == CostUpTo(Len(monsters))
             c == Contacts
         IN  /\ hits' = [j \in 1..Len(c) |->
                           [id |-> monsters[c[j]].id, damage |-> ContactCost(c[j])]]
             /\ \A j \in 1..Len(hits') : hits'[j].damage >= 1
             /\ IF total < player.hp
                THEN /\ player'.hp = player.hp - total
                     /\ \A k \in 1..Len(log') : log'[k] # DiedLine
                ELSE /\ \E k \in 1..Len(log') : log'[k] = DiedLine
                     /\ player'.hp = player'.max_hp]_vars

\* C15 happens: a monster whose attack is not above the player's defense
\* has cost the player 1 hp, and another monster was too far to touch
C15_Witness ==
    /\ lastOp = "update_monsters"
    /\ ~Logged(DiedLine)
    /\ \E j \in 1..Len(hits), i \in 1..Len(monsters) :
          /\ monsters[i].id = hits[j].id
          /\ monsters[i].attack <= defense_power(player)
          /\ hits[j].damage = 1
    /\ \E i \in 1..Len(monsters) :
          \A j \in 1..Len(hits) : hits[j].id # monsters[i].id
    /\ player.hp < player.max_hp

\* C17: in every reachable state max_hp = 120 + 15 * (level - 1),
\* base_attack = 8 + 2 * (level - 1) and base_defense = 2 + (level - 1).
C17_StatsFollowLevel ==
    /\ player.level >= 1
    /\ player.max_hp = 120 + 15 * (player.level - 1)
    /\ player.base_attack = 8 + 2 * (player.level - 1)
    /\ player.base_defense = 2 + (player.level - 1)

\* C17 happens: one gain_exp call has taken the player from level 1 to
\* level 9
C17_Witness ==
    /\ lastOp = "gain_exp"
    /\ lastGain.amount = 1200
    /\ player.level = 9
    /\ player.max_hp = 240 /\ player.base_attack = 24 /\ player.base_defense = 10

\* C18: after every completed operation every monster of the list has
\* 1 <= hp <= max_hp: a monster whose hp reaches 0 is removed inside the
\* same attack_monsters call.
C18_MonstersAlive ==
    \A i \in 1..Len(monsters) :
        1 <= monsters[i].hp /\ monsters[i].hp <= monsters[i].max_hp

\* C18 happens: a swing has taken a monster's hp to 0 and the monster out
\* of the list (five or fewer are left), and a monster it hurt is still there
C18_Witness ==
    /\ lastOp = "attack_monsters"
    /\ LoggedKind("monster_down")
    /\ Len(monsters) <= 5
    /\ \E i \in 1..Len(monsters) : monsters[i].hp < monsters[i].max_hp

\* random_equipment made the item from the weapon table: its name is a
\* prefix, a space and a weapon suffix
NamedAsWeapon(item) ==
    \E pr \in 1..Len(prefixes), su \in 1..Len(weapons) :
        item.name = prefixes[pr] \o <<SPACE>> \o weapons[su]

\* random_equipment made the item from the armor table
NamedAsArmor(item) ==
    \E pr \in 1..Len(prefixes), su \in 1..Len(armors) :
        item.name = prefixes[pr] \o <<SPACE>> \o armors[su]

\* C16: equip_selected puts every item random_equipment made as a weapon
\* into the weapon slot and every item it made as armor into the armor slot,
\* for every prefix and suffix; the weapon slot never holds an armor-named
\* item and the armor slot never holds a weapon-named item.
C16_SlotAgreesWithGeneration ==
    /\ [](/\ player.weapon # None => NamedAsWeapon(player.weapon)
          /\ player.armor # None => NamedAsArmor(player.armor))
    /\ [][lastOp' = "equip_selected" =>
            \E i \in 1..Len(inventory) :
               LET item == inventory[i]
               IN  /\ item.id = log'[Len(log')].a
                   /\ NamedAsWeapon(item) =>
                         player'.weapon = item /\ player'.armor = player.armor
                   /\ NamedAsArmor(item) =>
                         player'.armor = item /\ player'.weapon = player.weapon
                   /\ NamedAsWeapon(item) # NamedAsArmor(item)]_vars

\* C16 happens: both slots are filled, the weapon slot with the last weapon
\* of the table under the last prefix, the armor slot with a cloak
C16_Witness ==
    /\ lastOp = "equip_selected"
    /\ player.weapon # None /\ player.armor # None
    /\ player.weapon.name = prefixes[6] \o <<SPACE>> \o weapons[5]
    /\ NamedAsArmor(player.armor)
    /\ inventory = <<>>

\* the fields of the player other than vy and on_ground
Rest(p) == [f \in (DOMAIN p) \ {"vy", "on_ground"} |-> p[f]]

\* C13: a jump request on the ground sets vy to -jump_strength and clears
\* on_ground, leaving the other fields alone; a jump request in the air
\* leaves the whole player unchanged; on_ground becomes true again only in
\* handle_movement, with the player put at ground level and vy zeroed.
C13_JumpStateMachine ==
    [][/\ lastOp' = "jump_player" /\ player.on_ground =>
            /\ player'.vy = -jump_strength
            /\ ~player'.on_ground
            /\ Rest(player') = Rest(player)
       /\ lastOp' = "jump_player" /\ ~player.on_ground => player' = player
       /\ ~player.on_ground /\ player'.on_ground =>
            /\ lastOp' = "handle_movement"
            /\ player.y + player.vy + gravity >= ground_limit
            /\ player'.y = ground_limit
            /\ player'.vy = 0]_vars

\* C13 happens: the space bar was pressed in mid-air, after gravity had
\* already worked on the jump, and the jump was not started again
C13_Witness ==
    /\ lastOp = "jump_player"
    /\ inputs >= 2
    /\ ~player.on_ground
    /\ player.vy > -jump_strength
    /\ player.y < ground_limit

\* C19: whenever on_ground is set the player is at ground level (y = 388)
\* with no vertical velocity, also when a respawn happened during a jump.
C19_GroundedMeansAtRest ==
    player.on_ground => player.y = T(388) /\ player.vy = 0

\* C19 happens: the player has jumped (the first request finds the player on
\* the ground) and handle_movement has put the player on the ground again
C19_Witness ==
    /\ lastOp = "handle_movement"
    /\ inputs >= 1
    /\ player.on_ground
    /\ player.y = ground_limit

\* C20: as the ticks keep running, a player in the air is on the ground
\* again later, also when the player died and respawned during the jump.
C20_AirborneLands ==
    ~player.on_ground ~> player.on_ground

\* C20 happens: update_monsters respawned a player who was falling back
\* from a jump, and the player is in the air at ground level
C20_Witness ==
    /\ lastOp = "update_monsters"
    /\ Logged(DiedLine)
    /\ ~player.on_ground
    /\ player.vy > 0
    /\ player.y = ground_limit

\* C14: the player stays in the playfield, 20 <= x <= 700 and
\* 40 <= y <= 388, whatever keys are held at each tick and however jumps,
\* contacts and respawns fall between the ticks.
C14_InsidePlayfield ==
    /\ T(20) <= player.x /\ player.x <= T(700)
    /\ T(40) <= player.y /\ player.y <= T(388)

\* C14 happens: the player is in the air at the left wall, two or more
\* ticks after standing one step away from it
C14_Witness ==
    /\ lastOp = "handle_movement"
    /\ ticks >= 2
    /\ player.x = T(20)
    /\ ~player.on_ground
    /\ player.y < T(388)

\* a gain_exp call is at its while condition
InGainLoop == lastOp = "gain_exp_loop"

\* C21: a gain_exp call with a non-negative amount returns.  The threshold
\* exp_to_next is never below 30 and every level-up raises it, so every
\* run of the loop body takes at least 30 from exp, which stays at or above
\* 0; the loop body runs as many times as the level rose, at most
\* (exp + amount) / 30 times; the call returns True exactly when the level
\* is higher than at the call, and leaves what the whole loop leaves.
C21_GainExpTerminates ==
    /\ InGainLoop ~> lastOp = "gain_exp"
    /\ [](player.exp_to_next >= 30 /\ player.exp >= 0)
    /\ [][InGainLoop /\ player' # player =>
            /\ player'.level = player.level + 1
            /\ player'.exp_to_next > player.exp_to_next
            /\ player'.exp <= player.exp - 30
            /\ lastGain'.leveled]_vars
    /\ [](InGainLoop \/ lastOp = "gain_exp" =>
            /\ lastGain.amount >= 0
            /\ lastGain.leveled <=> player.level > lastGain.before.level
            /\ 30 * (player.level - lastGain.before.level)
                  <= lastGain.before.exp + lastGain.amount)
    /\ [](lastOp = "gain_exp" =>
            /\ player.exp < player.exp_to_next
            /\ player = gain_exp(lastGain.before, lastGain.amount).player
            /\ lastGain.leveled
                  = gain_exp(lastGain.before, lastGain.amount).leveled)

\* C21 happens: a call on a player who had already gained levels went
\* through the loop body more than once and returned True
C21_Witness ==
    /\ lastOp = "gain_exp"
    /\ lastGain.leveled
    /\ lastGain.before.level > 1
    /\ player.level > lastGain.before.level + 1

=============================================================================
